---------------------------- MODULE Spec2Model ----------------------------
(***************************************************************************)
(* Model of it_chatbot.py: a Streamlit customer-support chat that forwards *)
(* each user message to a chat-completion service, executes the tool calls *)
(* the service requests against two in-memory tables, and records every    *)
(* exchange in two session transcripts and a conversation log file.        *)
(*                                                                         *)
(* Text is modelled as a sequence of one-character strings, so that        *)
(* lower(), substring containment and f-string concatenation are computed  *)
(* rather than assumed.  One script run with a non-empty chat input is one *)
(* user turn; the turn is split into steps at the points where the script  *)
(* blocks on the completion service.                                       *)
(***************************************************************************)
EXTENDS Integers, Sequences, FiniteSets, TLC

(***************************************************************************)
(* Bounds of the model.                                                    *)
(***************************************************************************)
\* Number of user turns explored in one session.
MaxTurns == 2

\* Largest number of tool-call requests carried by one first response.
MaxCalls == 2

(***************************************************************************)
(* Python values.                                                          *)
(***************************************************************************)
\* Python's None where a text is expected; no text equals it, because every
\* element of a text is a single character.
None == <<"<None>">>

\* Truthiness of an optional text: None and "" are falsy.
Truthy(x) == x # None /\ x # <<>>

\* Variant of Or that tests "a is None" instead of the truth of a.
OrIfNone(a, b) == IF a # None THEN a ELSE b

\* Python's "a or b" on optional texts.
Or(a, b) == IF Truthy(a) THEN a ELSE b

\* The cased characters str.lower() maps, and their images.
UpperChars ==
    <<"A","B","C","D","E","F","G","H","I","J","K","L","M","N","O","P","Q","R",
      "S","T","U","V","W","X","Y","Z">>

LowerChars ==
    <<"a","b","c","d","e","f","g","h","i","j","k","l","m","n","o","p","q","r",
      "s","t","u","v","w","x","y","z">>

\* str.lower() on one character.
LowerChar(c) ==
    IF \E i \in 1..Len(UpperChars) : UpperChars[i] = c
    THEN LowerChars[CHOOSE i \in 1..Len(UpperChars) : UpperChars[i] = c]
    ELSE c

\* str.lower().
lower(s) == [i \in 1..Len(s) |-> LowerChar(s[i])]

\* Python's "sub in s" on texts (the empty text is contained in every text).
Contains(sub, s) ==
    \E i \in 0..(Len(s) - Len(sub)) : SubSeq(s, i + 1, i + Len(sub)) = sub

(***************************************************************************)
(* Knowledge store: the two static tables and their lookup functions.      *)
(***************************************************************************)
faq_data ==
    <<
      [question |->
          <<"H","o","w"," ","c","a","n"," ","I"," ","r","e","s","e","t"," ",
            "m","y"," ","p","a","s","s","w","o","r","d","?">>,
       answer |->
          <<"G","o"," ","t","o"," ","A","c","c","o","u","n","t"," ","S","e",
            "t","t","i","n","g","s"," ","→"," ","S","e","c","u","r","i","t",
            "y"," ","→"," ","R","e","s","e","t"," ","P","a","s","s","w","o",
            "r","d",".">>],
      [question |->
          <<"W","h","a","t"," ","i","s"," ","t","h","e"," ","r","e","f","u",
            "n","d"," ","p","o","l","i","c","y","?">>,
       answer |->
          <<"R","e","f","u","n","d","s"," ","a","r","e"," ","a","v","a","i",
            "l","a","b","l","e"," ","w","i","t","h","i","n"," ","3","0"," ",
            "d","a","y","s"," ","o","f"," ","p","u","r","c","h","a","s","e",
            ".">>],
      [question |->
          <<"D","o"," ","y","o","u"," ","o","f","f","e","r"," ","i","n","t",
            "e","r","n","a","t","i","o","n","a","l"," ","s","h","i","p","p",
            "i","n","g","?">>,
       answer |->
          <<"Y","e","s",","," ","w","e"," ","s","h","i","p"," ","w","o","r",
            "l","d","w","i","d","e",".">>]
    >>

order_data ==
    <<
      [order_id |-> <<"O","R","D","1","2","3">>,
       status |-> <<"S","h","i","p","p","e","d">>,
       eta |-> <<"2","0","2","5","-","1","0","-","2","8">>],
      [order_id |-> <<"O","R","D","1","2","4">>,
       status |-> <<"D","e","l","i","v","e","r","e","d">>,
       eta |-> <<"2","0","2","5","-","1","0","-","2","2">>],
      [order_id |-> <<"O","R","D","1","2","5">>,
       status |-> <<"P","r","o","c","e","s","s","i","n","g">>,
       eta |-> <<"2","0","2","5","-","1","0","-","2","7">>]
    >>

\* The sentinel lookup_faq returns when no entry matches.
FaqNotFound ==
    <<"S","o","r","r","y",","," ","I"," ","c","o","u","l","d","n","'","t"," ",
      "f","i","n","d"," ","t","h","a","t"," ","i","n","f","o","r","m","a","t",
      "i","o","n",".">>

\* Variant of lookup_faq_from that searches the questions only.
RECURSIVE lookup_faq_questions_only(_, _)
lookup_faq_questions_only(query, i) ==
    IF i > Len(faq_data) THEN FaqNotFound
    ELSE IF Contains(lower(query), lower(faq_data[i].question))
         THEN faq_data[i].answer
         ELSE lookup_faq_questions_only(query, i + 1)

\* The for loop of lookup_faq from entry i on: the first entry whose question
\* or answer contains the query, both lower-cased, decides.
RECURSIVE lookup_faq_from(_, _)
lookup_faq_from(query, i) ==
    IF i > Len(faq_data) THEN FaqNotFound
    ELSE IF \/ Contains(lower(query), lower(faq_data[i].question))
            \/ Contains(lower(query), lower(faq_data[i].answer))
         THEN faq_data[i].answer
         ELSE lookup_faq_from(query, i + 1)

lookup_faq(query) == lookup_faq_from(query, 1)

\* The literal pieces of the two f-strings of get_order_status.
OrderPrefix ==
    <<"O","r","d","e","r"," ">>

OrderIs ==
    <<" ","i","s"," ">>

OrderArrive ==
    <<" ","a","n","d"," ","w","i","l","l"," ","a","r","r","i","v","e"," ","b",
      "y"," ">>

OrderDot ==
    <<".">>

OrderIdPrefix ==
    <<"O","r","d","e","r"," ","I","D"," ">>

OrderNotFoundSuffix ==
    <<" ","n","o","t"," ","f","o","u","n","d",".">>

\* Variant of get_order_status_from that compares the ids as they are.
RECURSIVE get_order_status_exact(_, _)
get_order_status_exact(order_id, i) ==
    IF i > Len(order_data)
    THEN OrderIdPrefix \o order_id \o OrderNotFoundSuffix
    ELSE IF order_data[i].order_id = order_id
         THEN OrderPrefix \o order_id \o OrderIs \o order_data[i].status
                  \o OrderArrive \o order_data[i].eta \o OrderDot
         ELSE get_order_status_exact(order_id, i + 1)

\* The for loop of get_order_status from record i on.  The sentences echo the
\* id as it was passed in, not the id stored in the record.
RECURSIVE get_order_status_from(_, _)
get_order_status_from(order_id, i) ==
    IF i > Len(order_data)
    THEN OrderIdPrefix \o order_id \o OrderNotFoundSuffix
    ELSE IF lower(order_data[i].order_id) = lower(order_id)
         THEN OrderPrefix \o order_id \o OrderIs \o order_data[i].status
                  \o OrderArrive \o order_data[i].eta \o OrderDot
         ELSE get_order_status_from(order_id, i + 1)

get_order_status(order_id) == get_order_status_from(order_id, 1)

(***************************************************************************)
(* Tool dispatch: names, argument payloads and json.loads.                 *)
(***************************************************************************)
ToolNotImplemented ==
    <<"T","o","o","l"," ","n","o","t"," ","i","m","p","l","e","m","e","n","t",
      "e","d",".">>

\* Function names the service may put in a tool-call request: the two of the
\* tool catalog and one the script does not implement.
FuncNames == {"lookup_faq", "get_order_status", "reset_router"}

QueryRefund ==
    <<"R","E","F","U","N","D">>

QueryOrd ==
    <<"o","r","d","1","2","4">>

\* Argument payloads (JSON text) the service may send.
ArgTexts ==
    { "not json", "[]", "{}",
      "{\"query\": \"REFUND\"}", "{\"order_id\": \"ord124\"}" }

JsonDecodeError ==
    <<"E","x","p","e","c","t","i","n","g"," ","v","a","l","u","e",":"," ","l",
      "i","n","e"," ","1"," ","c","o","l","u","m","n"," ","1"," ","(","c","h",
      "a","r"," ","0",")">>

AttributeError ==
    <<"'","l","i","s","t","'"," ","o","b","j","e","c","t"," ","h","a","s"," ",
      "n","o"," ","a","t","t","r","i","b","u","t","e"," ","'","g","e","t","'">>

\* json.loads on the payloads above: it raises on malformed text, and
\* otherwise yields a list or a dict (a function from keys to texts).
json_loads(text) ==
    CASE text = "[]" ->
           [raises |-> FALSE, type |-> "list", value |-> <<>>]
      [] text = "{}" ->
           [raises |-> FALSE, type |-> "dict",
            value |-> [k \in {} |-> <<>>]]
      [] text = "{\"query\": \"REFUND\"}" ->
           [raises |-> FALSE, type |-> "dict",
            value |-> [k \in {"query"} |-> QueryRefund]]
      [] text = "{\"order_id\": \"ord124\"}" ->
           [raises |-> FALSE, type |-> "dict",
            value |-> [k \in {"order_id"} |-> QueryOrd]]
      [] OTHER ->
           [raises |-> TRUE, exc |-> JsonDecodeError]

\* dict.get(key, default).
dict_get(dict, key, default) ==
    IF key \in DOMAIN dict THEN dict[key] ELSE default

\* Variant of Dispatch that rejects a name outside the catalog.
DispatchStrict(func_name, func_args) ==
    IF func_name = "lookup_faq"
    THEN IF func_args.type # "dict"
         THEN [raises |-> TRUE, exc |-> AttributeError]
         ELSE [raises |-> FALSE,
               result |-> lookup_faq(dict_get(func_args.value, "query", <<>>))]
    ELSE IF func_name = "get_order_status"
    THEN IF func_args.type # "dict"
         THEN [raises |-> TRUE, exc |-> AttributeError]
         ELSE [raises |-> FALSE,
               result |->
                 get_order_status(dict_get(func_args.value, "order_id", <<>>))]
    ELSE [raises |-> TRUE, exc |-> ToolNotImplemented]

\* Lines 152-157: the outcome of dispatching one decoded tool call.  A known
\* tool calls func_args.get, which only a dict has; an unknown name never
\* touches func_args.
Dispatch(func_name, func_args) ==
    IF func_name = "lookup_faq"
    THEN IF func_args.type # "dict"
         THEN [raises |-> TRUE, exc |-> AttributeError]
         ELSE [raises |-> FALSE,
               result |-> lookup_faq(dict_get(func_args.value, "query", <<>>))]
    ELSE IF func_name = "get_order_status"
    THEN IF func_args.type # "dict"
         THEN [raises |-> TRUE, exc |-> AttributeError]
         ELSE [raises |-> FALSE,
               result |->
                 get_order_status(dict_get(func_args.value, "order_id", <<>>))]
    ELSE [raises |-> FALSE, result |-> ToolNotImplemented]

\* Lines 150-157: decode the payload, then dispatch on the name.
ExecuteTool(tc) ==
    LET func_name == tc.function.name
        func_args == json_loads(tc.function.arguments)
    IN  IF func_args.raises THEN func_args ELSE Dispatch(func_name, func_args)

\* The tool catalog sent with the initial request.
tools == {"lookup_faq", "get_order_status"}

(***************************************************************************)
(* Conversation log.                                                       *)
(***************************************************************************)
\* str.capitalize() on the three roles that are logged.
capitalize(role) ==
    CASE role = "user" -> "User"
      [] role = "assistant" -> "Assistant"
      [] role = "error" -> "Error"

OsError ==
    <<"[","E","r","r","n","o"," ","2","8","]"," ","N","o"," ","s","p","a","c",
      "e"," ","l","e","f","t"," ","o","n"," ","d","e","v","i","c","e">>

\* log_conversation when the file opens and the write succeeds: one line is
\* appended to the file named by log_filename.  The timestamp of the line is
\* left out.
log_conversation(lines, filename, role, content) ==
    Append(lines, [file |-> filename, role |-> capitalize(role),
                   content |-> content])

(***************************************************************************)
(* Session state, and the inputs of the environment.                       *)
(***************************************************************************)
SeedSystem ==
    <<"Y","o","u"," ","a","r","e"," ","a"," ","p","o","l","i","t","e",","," ",
      "a","c","c","u","r","a","t","e"," ","c","u","s","t","o","m","e","r"," ",
      "s","u","p","p","o","r","t"," ","a","s","s","i","s","t","a","n","t",".">>

SeedUser ==
    <<"H","o","w"," ","c","a","n"," ","I"," ","r","e","s","e","t"," ","m","y",
      " ","p","a","s","s","w","o","r","d","?">>

SeedAssistant ==
    <<"Y","o","u"," ","c","a","n"," ","r","e","s","e","t"," ","i","t"," ","u",
      "n","d","e","r"," ","A","c","c","o","u","n","t"," ","S","e","t","t","i",
      "n","g","s"," ","→"," ","S","e","c","u","r","i","t","y",".">>

\* The seeded transcript of lines 119-123.
SeedMessages ==
    << [role |-> "system", content |-> SeedSystem],
       [role |-> "user", content |-> SeedUser],
       [role |-> "assistant", content |-> SeedAssistant] >>

InputHi ==
    <<"H","i">>

\* The non-empty chat inputs of the session.
UserInputs == {InputHi}

ContentSure ==
    <<"S","u","r","e",".">>

\* The content of a response message: absent, empty, or a text.
ResponseContents == {None, <<>>, ContentSure}

\* The reply of line 181 when the first response has no text.
NoResponse ==
    <<"N","o"," ","r","e","s","p","o","n","s","e",".">>

ApiConnectionError ==
    <<"C","o","n","n","e","c","t","i","o","n"," ","e","r","r","o","r",".">>

\* The id the service gives the k-th tool call of a response.
CallId(k) == <<"call", k>>

\* The tool-call requests the service may make: a function name with an
\* argument payload.
ToolRequests ==
    { <<"lookup_faq", "not json">>,
      <<"lookup_faq", "{}">>,
      <<"lookup_faq", "{\"query\": \"REFUND\"}">>,
      <<"get_order_status", "[]">>,
      <<"get_order_status", "{\"order_id\": \"ord124\"}">>,
      <<"reset_router", "not json">>,
      <<"reset_router", "[]">> }

\* The tool_calls attribute of a response message: lists of up to MaxCalls
\* requests (the empty list included).
ToolCallLists ==
    UNION { { [k \in 1..n |->
                 [id |-> CallId(k),
                  function |-> [name |-> f[k][1], arguments |-> f[k][2]]]]
              : f \in [1..n -> ToolRequests] }
            : n \in 0..MaxCalls }

\* First responses that request no tool: a content, with tool_calls absent
\* or empty.
PlainMessages ==
    { [role |-> "assistant", content |-> c] : c \in ResponseContents }
      \cup
    { [role |-> "assistant", content |-> c, tool_calls |-> <<>>]
        : c \in ResponseContents }

\* The message of a first response: a plain one, or a list of tool calls
\* with no content.
FirstMessages ==
    PlainMessages
      \cup
    { [role |-> "assistant", content |-> None, tool_calls |-> tcs]
        : tcs \in ToolCallLists }

\* The message of a follow-up response (final_msg): a content, with
\* tool_calls absent or, although no catalog was offered, one tool call.
FollowUpMessages ==
    { [role |-> "assistant", content |-> c] : c \in ResponseContents }
      \cup
    { [role |-> "assistant", content |-> c,
       tool_calls |->
           << [id |-> CallId(1),
               function |->
                   [name |-> "get_order_status",
                    arguments |-> "{\"order_id\": \"ord124\"}"]] >>]
        : c \in ResponseContents }

\* getattr(message, "tool_calls", None), followed by the truth test of it.
HasToolCalls(msg) ==
    "tool_calls" \in DOMAIN msg /\ Len(msg.tool_calls) > 0

VARIABLES
    messages,          \* st.session_state.messages
    display_messages,  \* st.session_state.display_messages
    log_filename,      \* the file name computed by the current script run
    log_lines,         \* the lines written so far, each with its file
    pc,                \* where the script run of the current turn stands
    user_input,        \* the chat input of the current turn
    message,           \* the first response's message, once received
    tc_index,          \* position in tool_calls of the call being followed up
    result,            \* the result of that call
    request,           \* the completion request the script is blocked on
    requests_sent,     \* completion requests issued in the current turn
    exc,               \* the exception caught by the except clause, or None
    crashed,           \* an exception left the script run of this turn
    turn_start,        \* lengths of the three sequences when the turn began
    turns,             \* user turns started
    func_arg           \* the argument of a direct call of a tool function

vars ==
    << messages, display_messages, log_filename, log_lines, pc, user_input,
       message, tc_index, result, request, requests_sent, exc, crashed,
       turn_start, turns, func_arg >>

NoMessage == [role |-> "none"]

NoRequest == [messages |-> <<>>, tools |-> {}]

Init ==
    /\ messages = SeedMessages
    /\ display_messages = <<>>
    /\ log_filename = 0
    /\ log_lines = <<>>
    /\ pc = "Idle"
    /\ user_input = None
    /\ message = NoMessage
    /\ tc_index = 0
    /\ result = None
    /\ request = NoRequest
    /\ requests_sent = 0
    /\ exc = None
    /\ crashed = FALSE
    /\ turn_start = [messages |-> 3, display_messages |-> 0, log_lines |-> 0]
    /\ turns = 0
    /\ func_arg = None

\* Variant of AppendToTranscript that inserts the entry at the front.
AppendToTranscriptFront(m, role, content) ==
    << [role |-> role, content |-> content] >> \o m

\* Lines 132, 175, 182: append one role/content entry to
\* st.session_state.messages.
AppendToTranscript(m, role, content) ==
    Append(m, [role |-> role, content |-> content])

\* Variant of AppendToDisplay that shows the user's messages only.
AppendToDisplayUserOnly(d, role, content) ==
    IF role = "user" THEN Append(d, [role |-> role, content |-> content])
    ELSE d

\* Lines 133, 176, 183: the same entry appended to
\* st.session_state.display_messages.
AppendToDisplay(d, role, content) ==
    Append(d, [role |-> role, content |-> content])

\* Variant of InitialRequest that sends the transcript as it was before the
\* user's message was appended.
InitialRequestStale(m) == [messages |-> messages, tools |-> tools]

\* Lines 138-142: the initial request carries the transcript and the tool
\* catalog.
InitialRequest(m) == [messages |-> m, tools |-> tools]

\* Variant of FollowUpRequest that leaves the tool message out.
FollowUpRequestWithoutResult(m, msg, tc, res) ==
    [messages |-> m \o << msg >>, tools |-> {}]

\* Lines 160-171: the follow-up request of call tc with result res carries
\* the transcript, the first response's message and one tool message, and no
\* catalog.
FollowUpRequest(m, msg, tc, res) ==
    [messages |-> m \o << msg,
                          [role |-> "tool", tool_call_id |-> tc.id,
                           content |-> res] >>,
     tools |-> {}]

\* The variables only the start of a script run sets.
TurnUnchanged ==
    UNCHANGED << log_filename, user_input, turn_start, turns, func_arg >>

\* Variant of EndOfRun that takes the last entry off the transcript, and not
\* off the display, when the run ends with an exception.
EndOfRunRollback(m, d, l, e, c) ==
    /\ messages' = IF e = None THEN m ELSE SubSeq(m, 1, Len(m) - 1)
    /\ display_messages' = d
    /\ log_lines' = l
    /\ pc' = "Idle"
    /\ message' = NoMessage
    /\ tc_index' = 0
    /\ result' = None
    /\ request' = NoRequest
    /\ requests_sent' = requests_sent
    /\ exc' = e
    /\ crashed' = c

\* The script run ends: its local variables are gone, the session state and
\* the log keep what they hold.  c tells whether the run ended by an
\* exception that no except clause caught; Streamlit reports such an
\* exception on the page and keeps the session, so the next input starts a
\* new run either way.
EndOfRun(m, d, l, e, c) ==
    /\ messages' = m
    /\ display_messages' = d
    /\ log_lines' = l
    /\ pc' = "Idle"
    /\ message' = NoMessage
    /\ tc_index' = 0
    /\ result' = None
    /\ request' = NoRequest
    /\ requests_sent' = requests_sent
    /\ exc' = e
    /\ crashed' = c

\* Variant of ExceptHandler in which the exception ends the process: no
\* script run follows.
ExceptHandlerFatal(m, d, l, e) ==
    /\ messages' = m
    /\ display_messages' = d
    /\ log_lines' = log_conversation(l, log_filename, "error", e)
    /\ pc' = "Stopped"
    /\ message' = NoMessage
    /\ tc_index' = 0
    /\ result' = None
    /\ request' = NoRequest
    /\ requests_sent' = requests_sent
    /\ exc' = e
    /\ crashed' = TRUE

\* Lines 186-189: the except clause logs str(e).  If that write raises too,
\* the exception leaves the script.
ExceptHandler(m, d, l, e) ==
    \E written \in BOOLEAN :
        IF written
        THEN EndOfRun(m, d, log_conversation(l, log_filename, "error", e),
                      e, FALSE)
        ELSE EndOfRun(m, d, l, e, TRUE)

\* Lines 149-171, from the k-th iteration of the loop on, with the session
\* state at m, d, l: past the last call the turn is over; otherwise the call
\* is executed and its follow-up request is issued, without the catalog.
ToolLoop(k, msg, m, d, l) ==
    IF k > Len(msg.tool_calls)
    THEN EndOfRun(m, d, l, None, FALSE)
    ELSE LET tc == msg.tool_calls[k]
             executed == ExecuteTool(tc)
         IN  IF executed.raises
             THEN ExceptHandler(m, d, l, executed.exc)
             ELSE /\ messages' = m
                  /\ display_messages' = d
                  /\ log_lines' = l
                  /\ pc' = "AwaitingFollowUpCompletion"
                  /\ message' = msg
                  /\ tc_index' = k
                  /\ result' = executed.result
                  /\ request' = FollowUpRequest(m, msg, tc, executed.result)
                  /\ requests_sent' = requests_sent + 1
                  /\ exc' = None
                  /\ crashed' = FALSE

(***************************************************************************)
(* The steps of a user turn.                                               *)
(***************************************************************************)
\* Lines 102 and 130-142: a script run with chat input u, started when the
\* clock reads now.  The input is appended to both transcripts and logged,
\* and the initial request is issued with the tool catalog.  The write of
\* line 134 is outside the try block: if it raises, the run ends there.
SubmitUserMessage(u, now) ==
    /\ pc = "Idle"
    /\ turns < MaxTurns
    /\ turns' = turns + 1
    /\ UNCHANGED func_arg
    /\ user_input' = u
    /\ log_filename' = now
    /\ turn_start' = [messages |-> Len(messages),
                      display_messages |-> Len(display_messages),
                      log_lines |-> Len(log_lines)]
    /\ LET m == AppendToTranscript(messages, "user", u)
           d == AppendToDisplay(display_messages, "user", u)
       IN  \E written \in BOOLEAN :
               IF written
               THEN /\ messages' = m
                    /\ display_messages' = d
                    /\ log_lines' = log_conversation(log_lines, now, "user", u)
                    /\ pc' = "AwaitingFirstCompletion"
                    /\ message' = NoMessage
                    /\ tc_index' = 0
                    /\ result' = None
                    /\ request' = InitialRequest(m)
                    /\ requests_sent' = 1
                    /\ exc' = None
                    /\ crashed' = FALSE
               ELSE /\ EndOfRun(m, d, log_lines, None, TRUE)

\* Lines 138-142 raising: the except clause takes over.
FirstCompletionRaises(e) ==
    /\ pc = "AwaitingFirstCompletion"
    /\ ExceptHandler(messages, display_messages, log_lines, e)
    /\ TurnUnchanged

\* Lines 144-157 and 179-184: the first response arrives.  With tool calls
\* the loop starts; without, its content (or the sentinel) is the reply,
\* which is appended to both transcripts and then logged.  A failed write
\* raises inside the try block.
FirstCompletionReturns(msg) ==
    /\ pc = "AwaitingFirstCompletion"
    /\ IF HasToolCalls(msg)
       THEN ToolLoop(1, msg, messages, display_messages, log_lines)
       ELSE LET reply == Or(msg.content, NoResponse)
                m == AppendToTranscript(messages, "assistant", reply)
                d == AppendToDisplay(display_messages, "assistant", reply)
            IN  \E written \in BOOLEAN :
                    IF written
                    THEN EndOfRun(m, d,
                                  log_conversation(log_lines, log_filename,
                                                   "assistant", reply),
                                  None, FALSE)
                    ELSE ExceptHandler(m, d, log_lines, OsError)
    /\ TurnUnchanged

\* Lines 168-171 raising: the except clause takes over; the calls after this
\* one are not executed.
FollowUpCompletionRaises(e) ==
    /\ pc = "AwaitingFollowUpCompletion"
    /\ ExceptHandler(messages, display_messages, log_lines, e)
    /\ TurnUnchanged

\* Variant of FollowUpReply that falls back to the sentinel of the no-tool
\* branch.
FollowUpReplySentinel(content, res) == Or(content, NoResponse)

\* Line 173: reply = final_msg.content or result.
FollowUpReply(content, res) == Or(content, res)

\* Variant of FollowUpCompletionReturns that ends the turn after the first
\* reply, leaving the remaining calls of the list alone.
FollowUpCompletionReturnsOnce(final_msg) ==
    /\ pc = "AwaitingFollowUpCompletion"
    /\ LET reply == FollowUpReply(final_msg.content, result)
           m == AppendToTranscript(messages, "assistant", reply)
           d == AppendToDisplay(display_messages, "assistant", reply)
       IN  \E written \in BOOLEAN :
               IF written
               THEN EndOfRun(m, d,
                             log_conversation(log_lines, log_filename,
                                              "assistant", reply),
                             None, FALSE)
               ELSE ExceptHandler(m, d, log_lines, OsError)
    /\ TurnUnchanged

\* Lines 172-177, then the next iteration of the loop: the follow-up response
\* final_msg arrives; the reply is its content, or the tool result when that
\* is empty or absent.  It is appended to both transcripts and logged, and
\* the loop goes on to the next call of the first response.  The tool_calls
\* of final_msg are never read.
FollowUpCompletionReturns(final_msg) ==
    /\ pc = "AwaitingFollowUpCompletion"
    /\ LET reply == FollowUpReply(final_msg.content, result)
           m == AppendToTranscript(messages, "assistant", reply)
           d == AppendToDisplay(display_messages, "assistant", reply)
       IN  \E written \in BOOLEAN :
               IF written
               THEN ToolLoop(tc_index + 1, message, m, d,
                             log_conversation(log_lines, log_filename,
                                              "assistant", reply))
               ELSE ExceptHandler(m, d, log_lines, OsError)
    /\ TurnUnchanged

\* Exceptions of the completion call, by str(e).
ApiErrors == {ApiConnectionError}

\* The clock readings a new script run may see: the second of the previous
\* run, or a later one.
ClockReadings == {log_filename, log_filename + 1}

Next ==
    \/ \E u \in UserInputs, now \in ClockReadings : SubmitUserMessage(u, now)
    \/ \E e \in ApiErrors : FirstCompletionRaises(e)
    \/ \E msg \in FirstMessages : FirstCompletionReturns(msg)
    \/ \E e \in ApiErrors : FollowUpCompletionRaises(e)
    \/ \E final_msg \in FollowUpMessages :
           FollowUpCompletionReturns(final_msg)

Spec == Init /\ [][Next]_vars

\* A step of the turn in progress: the completion request the script is
\* blocked on returns or raises, and the script runs on to its next request
\* or to its end.
TurnStep == pc # "Idle" /\ Next

\* The steps of sessions all of whose script runs read the same clock
\* second, so that the log file name never changes.
SteadyNext ==
    \/ \E u \in UserInputs : SubmitUserMessage(u, log_filename)
    \/ \E e \in ApiErrors : FirstCompletionRaises(e)
    \/ \E msg \in FirstMessages : FirstCompletionReturns(msg)
    \/ \E e \in ApiErrors : FollowUpCompletionRaises(e)
    \/ \E final_msg \in FollowUpMessages :
           FollowUpCompletionReturns(final_msg)

\* Every completion request eventually returns or raises.  The file name of
\* the log plays no part in how a turn proceeds, and the clock is held.
FairSpec == Init /\ [][SteadyNext]_vars /\ WF_vars(TurnStep)

(***************************************************************************)
(* The knowledge store on its own: one of the two tool functions is called *)
(* with an argument and returns.  The session is not touched.              *)
(***************************************************************************)
\* Longest query built from QueryChars.
MaxQueryLen == 3

\* Characters of the queries: they occur, in one case or the other, in the
\* questions and answers of faq_data, except "z".
QueryChars == {"r", "E", "e", "f", "Y", "?", "z"}

\* All texts over QueryChars of up to MaxQueryLen characters, the empty one
\* included, and the question of the first entry in full.
Queries ==
    UNION { [1..n -> QueryChars] : n \in 0..MaxQueryLen } \cup {SeedUser}

\* Order ids: the prefix of the stored ids in several spellings, followed by
\* a stored number, another number or nothing; the empty id; an unrelated id.
OrderIds ==
    { a \o n : a \in { <<"O","R","D">>, <<"o","r","d">>, <<"O","r","d">>,
                       <<"O","R">> },
               n \in { <<"1","2","3">>, <<"1","2","4">>, <<"1","2","5">>,
                       <<"1","2","6">>, <<"1","2">>, <<>> } }
      \cup { <<>>, <<"z","z","z">> }

KnowledgeInit ==
    /\ messages = SeedMessages
    /\ display_messages = <<>>
    /\ log_filename = 0
    /\ log_lines = <<>>
    /\ user_input = None
    /\ message = NoMessage
    /\ tc_index = 0
    /\ result = None
    /\ request = NoRequest
    /\ requests_sent = 0
    /\ exc = None
    /\ crashed = FALSE
    /\ turn_start = [messages |-> 3, display_messages |-> 0, log_lines |-> 0]
    /\ turns = 0
    /\ \/ pc = "lookup_faq" /\ func_arg \in Queries
       \/ pc = "get_order_status" /\ func_arg \in OrderIds

\* What a call of a tool function leaves alone.
SessionUnchanged ==
    UNCHANGED << messages, display_messages, log_filename, log_lines,
                 user_input, message, tc_index, request, requests_sent, exc,
                 crashed, turn_start, turns, func_arg >>

\* Lines 57-61.
LookupFaqReturns ==
    /\ pc = "lookup_faq"
    /\ result' = lookup_faq(func_arg)
    /\ pc' = "lookup_faq returned"
    /\ SessionUnchanged

\* Lines 63-67.
GetOrderStatusReturns ==
    /\ pc = "get_order_status"
    /\ result' = get_order_status(func_arg)
    /\ pc' = "get_order_status returned"
    /\ SessionUnchanged

KnowledgeNext == LookupFaqReturns \/ GetOrderStatusReturns

KnowledgeSpec == KnowledgeInit /\ [][KnowledgeNext]_vars

(***************************************************************************)
(* Vocabulary of the properties.                                           *)
(***************************************************************************)
\* The entries of seq after its first n.
After(seq, n) == SubSeq(seq, n + 1, Len(seq))

\* The number of entries of seq with the given role.
CountRole(seq, role) ==
    Cardinality({i \in 1..Len(seq) : seq[i].role = role})

IsPrefix(a, b) == Len(a) <= Len(b) /\ SubSeq(b, 1, Len(a)) = a

\* What the current turn has added to the transcripts and to the log.
TurnMessages == After(messages, turn_start.messages)

TurnDisplay == After(display_messages, turn_start.display_messages)

TurnLog == After(log_lines, turn_start.log_lines)

Awaiting == {"AwaitingFirstCompletion", "AwaitingFollowUpCompletion"}

\* No turn is in progress, and at least one has been run.
TurnOver == pc = "Idle" /\ turns > 0

\* The turn ended through the except clause or by an escaping exception.
TurnErrored == exc # None \/ crashed

UserEntry == [role |-> "user", content |-> user_input]

(***************************************************************************)
(* C1.  If a completion call (initial or follow-up) raises, the failure    *)
(* leaves messages and display_messages as they were before the call, with *)
(* the user's message of the turn in both and no assistant entry for the   *)
(* failed call, and the conversation log gains exactly one error line for  *)
(* the turn.                                                               *)
(***************************************************************************)
C1_CompletionFailureKeepsTranscripts ==
    [][ (pc \in Awaiting /\ exc' \in ApiErrors) =>
           /\ messages' = messages
           /\ display_messages' = display_messages
           /\ messages'[turn_start.messages + 1] = UserEntry
           /\ display_messages'[turn_start.display_messages + 1] = UserEntry
           /\ CountRole(After(log_lines', turn_start.log_lines), "Error") = 1
      ]_vars

(***************************************************************************)
(* C4.  When a turn is over, the number of log lines it has written is 1   *)
(* for the user message, plus the number of assistant replies it appended  *)
(* to the transcripts, plus 1 exactly when the turn ended in an error.     *)
(***************************************************************************)
C4_LogLinesPerTurn ==
    TurnOver =>
        Len(TurnLog) = 1 + CountRole(TurnMessages, "assistant")
                         + (IF TurnErrored THEN 1 ELSE 0)

(***************************************************************************)
(* C5.  A failed write of the conversation log never reaches the turn      *)
(* outcome: no turn ends with the write's exception caught as the turn's   *)
(* error, and none ends with an exception leaving the script.              *)
(***************************************************************************)
C5_LogFailureDoesNotPropagate == ~crashed /\ exc # OsError

\* The step that ends a turn with tool calls without any exception.
ToolTurnSucceeds ==
    pc = "AwaitingFollowUpCompletion" /\ pc' = "Idle" /\ exc' = None
        /\ ~crashed'

\* A step that issues a follow-up request.
FollowUpIssued ==
    pc' = "AwaitingFollowUpCompletion" /\ requests_sent' # requests_sent

(***************************************************************************)
(* C2.  As claimed: a turn whose first response carries N >= 1 tool calls, *)
(* none of which fails, appends exactly N assistant entries to messages    *)
(* and N to display_messages, and in messages (never in display_messages)  *)
(* each of them comes right after a tool message for its call.             *)
(***************************************************************************)
C2_ToolMessagesInTranscript ==
    [][ ToolTurnSucceeds =>
          LET N == Len(message.tool_calls)
              tm == After(messages', turn_start.messages)
              td == After(display_messages', turn_start.display_messages)
          IN  /\ CountRole(tm, "assistant") = N
              /\ CountRole(td, "assistant") = N
              /\ CountRole(td, "tool") = 0
              /\ \A i \in 1..Len(tm) :
                     tm[i].role = "assistant" =>
                         i > 1 /\ tm[i - 1].role = "tool"
      ]_vars

(***************************************************************************)
(* C2, amended.  Such a turn appends exactly N assistant entries to each   *)
(* of messages and display_messages, after the user's entry and with       *)
(* nothing between them; the tool message of a call is the last message of *)
(* that call's follow-up request, the only tool message in it, and is      *)
(* never appended to messages or display_messages.                         *)
(***************************************************************************)
C2_ToolMessagesInFollowUpOnly ==
    [][ /\ ToolTurnSucceeds =>
             LET N == Len(message.tool_calls)
                 tm == After(messages', turn_start.messages)
                 td == After(display_messages', turn_start.display_messages)
             IN  /\ N >= 1
                 /\ Len(tm) = N + 1 /\ Len(td) = N + 1
                 /\ tm[1] = UserEntry /\ td[1] = UserEntry
                 /\ CountRole(tm, "assistant") = N
                 /\ CountRole(td, "assistant") = N
                 /\ CountRole(messages', "tool") = 0
                 /\ CountRole(display_messages', "tool") = 0
        /\ FollowUpIssued =>
             LET sent == request'.messages
                 tc == message'.tool_calls[tc_index']
             IN  /\ sent[Len(sent)] =
                        [role |-> "tool", tool_call_id |-> tc.id,
                         content |-> result']
                 /\ CountRole(sent, "tool") = 1
                 /\ SubSeq(sent, 1, Len(sent) - 2) = messages'
      ]_vars

\* A turn with two tool calls has ended without an error.
C2_Witness ==
    /\ TurnOver /\ ~TurnErrored
    /\ requests_sent = 3
    /\ CountRole(TurnMessages, "assistant") = 2

\* seq without the entries at the positions in U.
Without(seq, U) ==
    LET Kept[i \in 0..Len(seq)] ==
            IF i = 0 THEN <<>>
            ELSE IF i \in U THEN Kept[i - 1]
                 ELSE Append(Kept[i - 1], seq[i])
    IN  Kept[Len(seq)]

(***************************************************************************)
(* C3.  As claimed: at a turn boundary display_messages is messages with   *)
(* some entries left out, and every entry left out has role system or      *)
(* tool.                                                                   *)
(***************************************************************************)
C3_OnlyBookkeepingHidden ==
    pc = "Idle" =>
        \E U \in SUBSET (1..Len(messages)) :
            /\ Without(messages, U) = display_messages
            /\ \A i \in U : messages[i].role \in {"system", "tool"}

(***************************************************************************)
(* C3, amended.  At a turn boundary display_messages is messages with      *)
(* exactly the three seeded entries left out (the system directive and the *)
(* example user and assistant messages): every user message and assistant  *)
(* reply appended since is in both, in the same order.                     *)
(***************************************************************************)
C3_OnlySeedHidden ==
    pc = "Idle" =>
        /\ Without(messages, 1..Len(SeedMessages)) = display_messages
        /\ SubSeq(messages, 1, Len(SeedMessages)) = SeedMessages
        /\ \A j \in 1..Len(display_messages) :
               display_messages[j].role \in {"user", "assistant"}

\* A turn that appended a user message and two assistant replies is over.
C3_Witness ==
    /\ TurnOver
    /\ CountRole(TurnMessages, "user") = 1
    /\ CountRole(TurnDisplay, "assistant") = 2

(***************************************************************************)
(* C6.  Every turn ends in Idle, whichever path it takes, provided each    *)
(* completion request returns or raises; and in Idle the next user turn    *)
(* can be started (up to the number of turns the model explores).          *)
(***************************************************************************)
C6_TurnEndsInIdle ==
    /\ [](pc # "Idle" => <>(pc = "Idle"))
    /\ [](pc = "Idle" /\ turns < MaxTurns =>
            ENABLED (\E u \in UserInputs, now \in ClockReadings :
                         SubmitUserMessage(u, now)))

\* A turn that ended in an error is over and a second turn is under way.
C6_Witness ==
    /\ turns = 2
    /\ pc = "AwaitingFollowUpCompletion"
    /\ CountRole(SubSeq(log_lines, 1, turn_start.log_lines), "Error") = 1

(***************************************************************************)
(* C7.  A user input grows messages and display_messages by exactly one    *)
(* user entry carrying it, and every completion request of the turn has    *)
(* that entry in its message list.                                         *)
(***************************************************************************)
C7_UserMessageBeforeRequest ==
    [][ /\ turns' # turns =>
             /\ messages' = Append(messages, UserEntry')
             /\ display_messages' = Append(display_messages, UserEntry')
        /\ request' # NoRequest =>
             /\ Len(request'.messages) > turn_start'.messages
             /\ request'.messages[turn_start'.messages + 1] = UserEntry'
             /\ messages'[turn_start'.messages + 1] = UserEntry'
             /\ display_messages'[turn_start'.display_messages + 1]
                    = UserEntry'
      ]_vars

\* The initial request of a second turn is pending.
C7_Witness ==
    /\ pc = "AwaitingFirstCompletion"
    /\ turns = 2
    /\ request.messages[Len(request.messages)] = UserEntry

(***************************************************************************)
(* C8.  A first response without tool calls ends the turn after its one    *)
(* completion request, appending exactly one assistant entry to messages   *)
(* and one to display_messages: the response's text, or "No response."     *)
(* when the text is empty or absent.                                       *)
(***************************************************************************)
C8_NoToolReply ==
    [][ \A msg \in PlainMessages :
          (pc = "AwaitingFirstCompletion" /\ ~HasToolCalls(msg)
               /\ FirstCompletionReturns(msg)) =>
             LET text == IF msg.content = None \/ msg.content = <<>>
                         THEN NoResponse ELSE msg.content
                 entry == [role |-> "assistant", content |-> text]
             IN  /\ messages' = Append(messages, entry)
                 /\ display_messages' = Append(display_messages, entry)
                 /\ requests_sent' = 1
                 /\ pc' = "Idle"
      ]_vars

\* A turn has ended with the sentinel as its only reply.
C8_Witness ==
    /\ TurnOver /\ ~TurnErrored
    /\ requests_sent = 1
    /\ TurnMessages = << UserEntry,
                         [role |-> "assistant", content |-> NoResponse] >>
    /\ TurnDisplay = TurnMessages

(***************************************************************************)
(* C9.  messages starts as the seeded system directive and example pair,   *)
(* display_messages starts empty, and every step, error exits included,    *)
(* only appends to them.                                                   *)
(***************************************************************************)
C9_AppendOnly ==
    /\ messages = SeedMessages /\ display_messages = <<>>
    /\ [][ /\ IsPrefix(messages, messages')
           /\ IsPrefix(display_messages, display_messages') ]_vars

\* A turn with replies has ended through the except clause.
C9_Witness ==
    /\ TurnOver /\ exc # None
    /\ CountRole(TurnMessages, "assistant") >= 1

\* The k-th call of msg names no tool of the catalog and its payload decodes.
UnknownCall(msg, k) ==
    /\ msg.tool_calls[k].function.name \notin tools
    /\ ~json_loads(msg.tool_calls[k].function.arguments).raises

\* What the loop must do on reaching such a call.
UnknownCallFollowedUp(msg, k) ==
    /\ pc' = "AwaitingFollowUpCompletion"
    /\ exc' = None /\ ~crashed'
    /\ tc_index' = k
    /\ result' = ToolNotImplemented
    /\ request'.messages[Len(request'.messages)] =
           [role |-> "tool", tool_call_id |-> msg.tool_calls[k].id,
            content |-> ToolNotImplemented]
    /\ request'.messages[Len(request'.messages) - 1] = msg
    /\ CountRole(After(log_lines', turn_start.log_lines), "Error") = 0

C11_OneLogFile ==
    \A k \in 1..Len(log_lines) : log_lines[k].file = log_lines[1].file

\* Two characters that differ at most in case.
SameLetter(a, b) ==
    \/ a = b
    \/ \E i \in 1..Len(UpperChars) : {a, b} = {UpperChars[i], LowerChars[i]}

\* q occurs in s, case aside.
OccursIn(q, s) ==
    \E at \in 0..(Len(s) - Len(q)) :
        \A j \in 1..Len(q) : SameLetter(q[j], s[at + j])

\* The entries of faq_data whose question or answer contains q, case aside.
Qualifying(q) ==
    { i \in 1..Len(faq_data) :
        OccursIn(q, faq_data[i].question) \/ OccursIn(q, faq_data[i].answer) }

(***************************************************************************)
(* C12.  For every query q, the empty one included, lookup_faq(q) is the   *)
(* answer of the first entry of faq_data, in table order, whose question   *)
(* or answer contains q case-insensitively, and it is the not-found        *)
(* sentinel if and only if no entry qualifies.                             *)
(***************************************************************************)
C12_LookupFaqFirstMatch ==
    pc = "lookup_faq returned" =>
        LET hits == Qualifying(func_arg)
        IN  /\ hits = {} => result = FaqNotFound
            /\ hits # {} =>
                 /\ result # FaqNotFound
                 /\ \E i \in hits :
                        /\ \A j \in hits : i <= j
                        /\ result = faq_data[i].answer
            /\ func_arg = <<>> => result = faq_data[1].answer
            /\ func_arg = SeedUser => result = faq_data[1].answer

\* A query in another case than the table's, found in the second entry only.
C12_Witness ==
    /\ pc = "lookup_faq returned"
    /\ func_arg = <<"r", "E", "f">>
    /\ result = faq_data[2].answer

\* Two texts equal, case aside.
SameText(a, b) ==
    Len(a) = Len(b) /\ \A j \in 1..Len(a) : SameLetter(a[j], b[j])

(***************************************************************************)
(* C13.  For every id i, get_order_status(i) is "Order ID <i> not found."  *)
(* if and only if no record's order_id equals i case-insensitively, and    *)
(* otherwise "Order <i> is <status> and will arrive by <eta>." with the    *)
(* status and eta of the matching record.                                  *)
(***************************************************************************)
C13_OrderStatusSentence ==
    pc = "get_order_status returned" =>
        LET hits == { i \in 1..Len(order_data) :
                        SameText(order_data[i].order_id, func_arg) }
            not_found == <<"O","r","d","e","r"," ","I","D"," ">> \o func_arg
                           \o <<" ","n","o","t"," ","f","o","u","n","d",".">>
        IN  /\ (result = not_found) <=> (hits = {})
            /\ \A i \in hits :
                   result = <<"O","r","d","e","r"," ">> \o func_arg
                              \o <<" ","i","s"," ">> \o order_data[i].status
                              \o <<" ","a","n","d"," ","w","i","l","l"," ",
                                   "a","r","r","i","v","e"," ","b","y"," ">>
                              \o order_data[i].eta \o <<".">>
            /\ func_arg = <<"O","R","D","1","2","4">> =>
                   result =
                      <<"O","r","d","e","r"," ","O","R","D","1","2","4"," ",
                        "i","s"," ","D","e","l","i","v","e","r","e","d"," ",
                        "a","n","d"," ","w","i","l","l"," ","a","r","r","i",
                        "v","e"," ","b","y"," ","2","0","2","5","-","1","0",
                        "-","2","2",".">>
            /\ func_arg = <<"z","z","z">> =>
                   result =
                      <<"O","r","d","e","r"," ","I","D"," ","z","z","z"," ",
                        "n","o","t"," ","f","o","u","n","d",".">>

\* An id in lower case has been found: the sentence echoes it as given.
C13_Witness ==
    /\ pc = "get_order_status returned"
    /\ func_arg = <<"o","r","d","1","2","4">>
    /\ SubSeq(result, 1, 12) = <<"O","r","d","e","r"," ","o","r","d","1","2","4">>

\* The transcript as the turn's initial request carried it: what the session
\* held when the turn began, and the user's entry.
OriginalTranscript == SubSeq(messages, 1, turn_start.messages + 1)

(***************************************************************************)
(* C14.  For every tool call of a turn, the first and the later ones, the  *)
(* message list of its follow-up request is the transcript as sent in the  *)
(* turn's initial request, then the first response's message, then one     *)
(* tool message carrying the call's id and result.                         *)
(***************************************************************************)
C14_FollowUpFromOriginalTranscript ==
    [][ FollowUpIssued =>
          request'.messages =
              OriginalTranscript'
                \o << message',
                      [role |-> "tool",
                       tool_call_id |-> message'.tool_calls[tc_index'].id,
                       content |-> result'] >>
      ]_vars

\* The last entry of a non-empty sequence.
Last(seq) == seq[Len(seq)]

\* The step that takes the loop from the follow-up of one call to the
\* follow-up of the next has appended one assistant reply to both
\* transcripts and logged it.
ReplyAppendedAndLogged ==
    /\ Len(messages') = Len(messages) + 1
    /\ Last(messages').role = "assistant"
    /\ messages' = Append(messages, Last(messages'))
    /\ display_messages' = Append(display_messages, Last(messages'))
    /\ log_lines' = Append(log_lines,
                           [file |-> log_filename, role |-> "Assistant",
                            content |-> Last(messages').content])

\* The requests of a turn, one after the other: the initial request, with
\* the catalog, is issued by the step that starts the turn; the follow-up
\* requests, without the catalog, are issued for the calls of the first
\* response in their order, each after the reply of the call before it; no
\* other step issues a request, and a follow-up response's own tool calls
\* are not executed.
RequestsInOrder ==
    /\ pc' = "AwaitingFirstCompletion" =>
           /\ pc = "Idle"
           /\ requests_sent' = 1
           /\ request'.tools = tools /\ request'.tools # {}
    /\ pc' = "AwaitingFollowUpCompletion" =>
           /\ FollowUpIssued
           /\ pc \in Awaiting
           /\ requests_sent' = requests_sent + 1
           /\ request'.tools = {}
           /\ tc_index' = tc_index + 1
           /\ requests_sent' = tc_index' + 1
           /\ tc_index' <= Len(message'.tool_calls)
           /\ Last(request'.messages).tool_call_id
                  = message'.tool_calls[tc_index'].id
           /\ pc = "AwaitingFollowUpCompletion" =>
                  message' = message /\ ReplyAppendedAndLogged
    /\ pc' = "Idle" /\ pc # "Idle" => requests_sent' = requests_sent
    /\ \A final_msg \in FollowUpMessages :
           (/\ pc = "AwaitingFollowUpCompletion"
            /\ HasToolCalls(final_msg)
            /\ FollowUpCompletionReturns(final_msg))
               => /\ message' \in {message, NoMessage}
                  /\ pc' = "AwaitingFollowUpCompletion" =>
                         result' = ExecuteTool(
                                       message.tool_calls[tc_index + 1]).result
                  /\ (pc' = "Idle" /\ exc' = None /\ ~crashed') =>
                         tc_index = Len(message.tool_calls)

(***************************************************************************)
(* C15.  As claimed: the requests of a turn are issued one after the       *)
(* other, the initial one with the tool catalog and the follow-ups without *)
(* it, in the order of the tool calls and each after the reply of the call *)
(* before it was appended and logged; tool calls of a follow-up response   *)
(* are never executed; and a turn whose first response carries N tool      *)
(* calls issues exactly N follow-up requests.                              *)
(***************************************************************************)
C15_ExactlyNFollowUps ==
    [][ /\ RequestsInOrder
        /\ (pc = "AwaitingFollowUpCompletion" /\ pc' = "Idle") =>
               requests_sent' = 1 + Len(message.tool_calls)
      ]_vars

(***************************************************************************)
(* C15, amended.  The same order of requests, with at most N follow-up     *)
(* requests: exactly N when the turn ends without an exception; when the   *)
(* decoding of a call's arguments, a follow-up call or a log write raises, *)
(* only the calls up to that one have had a follow-up request.             *)
(***************************************************************************)
C15_SequentialRequests ==
    [][ /\ RequestsInOrder
        /\ (pc = "AwaitingFollowUpCompletion" /\ pc' = "Idle") =>
               /\ requests_sent' <= 1 + Len(message.tool_calls)
               /\ (exc' = None /\ ~crashed') =>
                      requests_sent' = 1 + Len(message.tool_calls)
               /\ (exc' # None \/ crashed') =>
                      requests_sent' = 1 + tc_index
        /\ (pc = "AwaitingFirstCompletion" /\ pc' = "Idle") =>
               requests_sent' = 1
      ]_vars

\* The follow-up request of the second call is pending: the reply of the
\* first call is in both transcripts and in the log.
C15_Witness ==
    /\ pc = "AwaitingFollowUpCompletion"
    /\ tc_index = 2 /\ requests_sent = 3
    /\ request.tools = {}
    /\ CountRole(TurnMessages, "assistant") = 1
    /\ CountRole(TurnDisplay, "assistant") = 1
    /\ CountRole(TurnLog, "Assistant") = 1

(***************************************************************************)
(* C16.  When the follow-up request of a tool call returns, the assistant  *)
(* entry appended to messages and to display_messages, and the line        *)
(* written to the log, carry the follow-up response's text when it is      *)
(* non-empty and the call's raw result otherwise: never "No response.",    *)
(* never an empty text.                                                    *)
(***************************************************************************)
C16_FollowUpReplyAdopted ==
    [][ \A final_msg \in FollowUpMessages :
          (pc = "AwaitingFollowUpCompletion"
               /\ FollowUpCompletionReturns(final_msg)) =>
             LET text == IF final_msg.content = None
                            \/ final_msg.content = <<>>
                         THEN result ELSE final_msg.content
                 entry == [role |-> "assistant", content |-> text]
                 line == [file |-> log_filename, role |-> "Assistant",
                          content |-> text]
             IN  /\ text # None /\ text # <<>> /\ text # NoResponse
                 /\ messages' = Append(messages, entry)
                 /\ display_messages' = Append(display_messages, entry)
                 /\ \A k \in (Len(log_lines) + 1)..Len(log_lines') :
                        log_lines'[k].role = "Assistant" =>
                            k = Len(log_lines) + 1 /\ log_lines'[k] = line
                 /\ exc' # OsError =>
                        /\ Len(log_lines') > Len(log_lines)
                        /\ log_lines'[Len(log_lines) + 1] = line
      ]_vars

\* A turn is over whose follow-up response had no text: the reply in both
\* transcripts and in the log is the answer the FAQ lookup returned.
C16_Witness ==
    /\ TurnOver /\ ~TurnErrored
    /\ requests_sent = 2
    /\ Last(messages) =
           [role |-> "assistant", content |-> lookup_faq(QueryRefund)]
    /\ Last(display_messages) = Last(messages)
    /\ Last(log_lines).role = "Assistant"
    /\ Last(log_lines).content = lookup_faq(QueryRefund)

(***************************************************************************)
(* C17.  Whenever no turn is in progress, display_messages is messages     *)
(* without its three seeded entries: three entries shorter, and entry j of *)
(* display_messages has the role and the content of entry j + 3 of         *)
(* messages, whatever turns (plain, tool-using, failed) came before.       *)
(***************************************************************************)
C17_DisplayIsTranscriptSansSeed ==
    pc = "Idle" =>
        /\ Len(messages) >= 3
        /\ messages[1] = [role |-> "system", content |-> SeedSystem]
        /\ messages[2] = [role |-> "user", content |-> SeedUser]
        /\ messages[3] = [role |-> "assistant", content |-> SeedAssistant]
        /\ Len(display_messages) = Len(messages) - 3
        /\ \A j \in 1..Len(display_messages) :
               /\ display_messages[j].role = messages[j + 3].role
               /\ display_messages[j].content = messages[j + 3].content

\* Two turns are over, the first ended by an exception after a reply, the
\* second without one.
C17_Witness ==
    /\ pc = "Idle" /\ turns = 2 /\ ~TurnErrored
    /\ CountRole(SubSeq(log_lines, 1, turn_start.log_lines), "Error") = 1
    /\ Len(display_messages) >= 4

(***************************************************************************)
(* C18.  In a turn whose first response carries N >= 2 tool calls, when    *)
(* the follow-up completion call of the k-th call raises: the replies of   *)
(* calls 1..k-1 stay in messages, in display_messages and in the log       *)
(* (nothing is removed, and there are k-1 of them in each), the calls      *)
(* after the k-th are not executed and get no follow-up request, and the   *)
(* turn is over with exactly one error line in the log.                    *)
(***************************************************************************)
C18_FollowUpFailureKeepsEarlierReplies ==
    [][ (/\ pc = "AwaitingFollowUpCompletion"
         /\ Len(message.tool_calls) >= 2
         /\ exc' \in ApiErrors) =>
           LET k == tc_index
           IN  /\ messages' = messages
               /\ display_messages' = display_messages
               /\ IsPrefix(log_lines, log_lines')
               /\ CountRole(After(messages', turn_start.messages),
                            "assistant") = k - 1
               /\ CountRole(After(display_messages',
                                  turn_start.display_messages),
                            "assistant") = k - 1
               /\ CountRole(After(log_lines', turn_start.log_lines),
                            "Assistant") = k - 1
               /\ pc' = "Idle"
               /\ requests_sent' = requests_sent
               /\ requests_sent' = 1 + k
               /\ CountRole(After(log_lines', turn_start.log_lines),
                            "Error") = 1
      ]_vars

\* Payloads that are not JSON text, and the payload of an object without
\* any key.
MalformedPayloads == {"not json"}

EmptyObjectPayload == "{}"

\* The turn has been aborted through the except clause on a payload that
\* could not be decoded: no request was issued, and one error line was
\* logged.
AbortedOnDecoding ==
    /\ pc' = "Idle"
    /\ exc' = JsonDecodeError
    /\ requests_sent' = requests_sent
    /\ request' = NoRequest
    /\ CountRole(After(log_lines', turn_start.log_lines), "Error") = 1
    /\ Last(log_lines') = [file |-> log_filename, role |-> "Error",
                           content |-> JsonDecodeError]

(***************************************************************************)
(* C19.  When the argument payload of a tool call is not JSON text, the    *)
(* turn is aborted by the except clause, as for a failed completion call:  *)
(* neither that call nor a later one gets a follow-up request, no          *)
(* assistant entry is appended for it, and one error line is logged.  A    *)
(* payload that decodes to an object without the expected key is no error: *)
(* the tool is invoked with the empty string and its follow-up request is  *)
(* issued.                                                                 *)
(***************************************************************************)
C19_MalformedPayloadAborts ==
    [][ /\ \A msg \in FirstMessages :
             (/\ pc = "AwaitingFirstCompletion"
              /\ HasToolCalls(msg)
              /\ msg.tool_calls[1].function.arguments \in MalformedPayloads
              /\ FirstCompletionReturns(msg))
                 => /\ AbortedOnDecoding
                    /\ messages' = messages
                    /\ display_messages' = display_messages
        /\ (/\ pc = "AwaitingFollowUpCompletion"
            /\ Len(log_lines') > Len(log_lines)
            /\ log_lines'[Len(log_lines) + 1].role = "Assistant"
            /\ tc_index < Len(message.tool_calls)
            /\ message.tool_calls[tc_index + 1].function.arguments
                   \in MalformedPayloads)
               => /\ AbortedOnDecoding
                  /\ Len(messages') = Len(messages) + 1
                  /\ Len(display_messages') = Len(display_messages) + 1
        /\ \A msg \in FirstMessages :
             (/\ pc = "AwaitingFirstCompletion"
              /\ HasToolCalls(msg)
              /\ msg.tool_calls[1].function.arguments = EmptyObjectPayload
              /\ msg.tool_calls[1].function.name \in tools
              /\ FirstCompletionReturns(msg))
                 => /\ pc' = "AwaitingFollowUpCompletion"
                    /\ exc' = None /\ ~crashed'
                    /\ result' =
                           (IF msg.tool_calls[1].function.name = "lookup_faq"
                            THEN lookup_faq(<<>>)
                            ELSE get_order_status(<<>>))
                    /\ Last(request'.messages).content = result'
                    /\ CountRole(After(log_lines', turn_start.log_lines),
                                 "Error") = 0
      ]_vars

=============================================================================
